---- MODULE Spec2Model ----
(***************************************************************************)
(* Game of Life (GameOfLife/Main.cpp): the padded grid of two-bit cells,   *)
(* the three grid functions FillRandom, Update and CopyToImage, and the    *)
(* frame loop of Main that drives them from the buttons, the slider, the   *)
(* stopwatch and the mouse.                                                *)
(*                                                                         *)
(* Time is counted in quarter seconds and the slider value in halves, so   *)
(* that speed * speed (0.25 s for speed 0.5, 1 s for speed 1.0) is exact.  *)
(***************************************************************************)
EXTENDS Integers, FiniteSets, Sequences, TLC

VARIABLES
    grid,        \* Grid<Cell> grid: grid[y][x] = [previous, current]
    image,       \* Image image: image[y][x] is a colour
    autoStep,    \* bool autoStep
    speed,       \* double speed, in halves
    doesUpdate,  \* bool doesUpdate
    s,           \* Stopwatch s: elapsed quarter seconds
    fr,          \* history: what the last iteration of the frame loop did
    twin         \* a second grid, for comparing two runs of Update

vars == <<grid, image, autoStep, speed, doesUpdate, s, fr, twin>>

-----------------------------------------------------------------------------
(* Bounds *)

\* logical field of the frame loop (60 x 60 in the source)
fieldWidth == 1
fieldHeight == 1
\* largest stopwatch reading kept, in quarter seconds
MaxElapsed == 4
\* logical field of the Update runs (60 x 60 in the source)
RuleW == 4
RuleH == 4

\* pixels per cell: Cursor::Pos() / 10, texture.scaled(10)
CellPx == 10

\* slider positions tried: 0.5 (the initial value) and 1.0
Speeds == {1, 2}

-----------------------------------------------------------------------------
(* Cell and Grid<Cell> *)

Cell == [previous : BOOLEAN, current : BOOLEAN]

\* Cell{ 0,0 }
Dead == [previous |-> FALSE, current |-> FALSE]

\* Grid<Cell> grid(w, h, Cell{ 0,0 })
NewGrid(w, h) == [y \in 0..(h - 1) |-> [x \in 0..(w - 1) |-> Dead]]

height(g) == Cardinality(DOMAIN g)
width(g) == Cardinality(DOMAIN g[0])

\* Range(a, b): a, a+1, ..., b (both ends included)
Range(a, b) == a..b

\* step(n): 0, 1, ..., n-1
step(n) == 0..(n - 1)

\* a fill that writes the current bit and leaves the previous bit
fill_current_only(g, c) ==
    [y \in DOMAIN g |-> [x \in DOMAIN g[y] |-> [g[y][x] EXCEPT !.current = c.current]]]

\* grid.fill(c): every element, the border included
fill(g, c) == [y \in DOMAIN g |-> [x \in DOMAIN g[y] |-> c]]

\* FillRandom: rnd[y][x] is the value RandomBool(0.5) returns for cell (x, y)
FillRandom(g, rnd) ==
    LET zero == fill(g, Dead)
    IN  [y \in DOMAIN zero |-> [x \in DOMAIN zero[y] |->
            IF y \in Range(1, height(zero) - 2) /\ x \in Range(1, width(zero) - 2)
            THEN [previous |-> FALSE, current |-> rnd[y][x]]
            ELSE zero[y][x]]]

\* bool to int32 conversion of a bit field
ToInt(b) == IF b THEN 1 ELSE 0

-----------------------------------------------------------------------------
(* Update *)

\* the number of living cells among the eight neighbours of (x, y), read from
\* the previous bits
numLivingCell(g, y, x) ==
      ToInt(g[y - 1][x - 1].previous)
    + ToInt(g[y - 1][x].previous)
    + ToInt(g[y - 1][x + 1].previous)
    + ToInt(g[y][x - 1].previous)
    + ToInt(g[y][x + 1].previous)
    + ToInt(g[y + 1][x - 1].previous)
    + ToInt(g[y + 1][x].previous)
    + ToInt(g[y + 1][x + 1].previous)

\* the new state of a cell: birth, or survival
Alive(centerCell, n) ==
    (centerCell = 0 /\ n = 3) \/ (centerCell = 1 /\ (n = 2 \/ n = 3))

\* the new current bit of the cell (x, y)
NextCurrent(g, y, x) == Alive(ToInt(g[y][x].previous), numLivingCell(g, y, x))

\* the first loop of Update left out
SnapshotSkipped(g) == g

\* first loop of Update: cell.previous = cell.current, for every cell
Snapshot(g) ==
    [y \in DOMAIN g |-> [x \in DOMAIN g[y] |->
        [g[y][x] EXCEPT !.previous = g[y][x].current]]]

\* second loop of Update, from its i-th iteration on: the cells inside the
\* border are rewritten in place, row by row (y outer, x inner)
RECURSIVE Scan(_, _)
Scan(g, i) ==
    LET w == width(g) - 2
        rows == Range(1, height(g) - 2)
        cols == Range(1, width(g) - 2)
    IN  IF i >= Cardinality(rows) * Cardinality(cols) THEN g
        ELSE Scan([g EXCEPT ![1 + (i \div w)][1 + (i % w)].current =
                        NextCurrent(g, 1 + (i \div w), 1 + (i % w))], i + 1)

\* second loop of Update
Evaluate(g) == Scan(g, 0)

\* Update without its first loop
UpdateNoSnapshot(g) == Evaluate(g)

\* Update counting grid[y + 1][x] twice and grid[y + 1][x + 1] never
UpdateMiscount(g) ==
    LET p == Snapshot(g)
        n(y, x) ==
              ToInt(p[y - 1][x - 1].previous) + ToInt(p[y - 1][x].previous)
            + ToInt(p[y - 1][x + 1].previous) + ToInt(p[y][x - 1].previous)
            + ToInt(p[y][x + 1].previous) + ToInt(p[y + 1][x - 1].previous)
            + ToInt(p[y + 1][x].previous) + ToInt(p[y + 1][x].previous)
    IN  [y \in DOMAIN p |-> [x \in DOMAIN p[y] |->
            IF y \in Range(1, height(p) - 2) /\ x \in Range(1, width(p) - 2)
            THEN [p[y][x] EXCEPT !.current =
                    (~p[y][x].previous /\ n(y, x) = 3)
                    \/ (p[y][x].previous /\ (n(y, x) = 2 \/ n(y, x) = 3))]
            ELSE p[y][x]]]

\* Update reading the neighbours' current bits while it overwrites them in
\* scan order; i is the number of cells already rewritten
RECURSIVE ScanInPlace(_, _)
ScanInPlace(g, i) ==
    LET w == width(g) - 2
        h == height(g) - 2
        y == (i \div w) + 1
        x == (i % w) + 1
        n ==  ToInt(g[y - 1][x - 1].current) + ToInt(g[y - 1][x].current)
            + ToInt(g[y - 1][x + 1].current) + ToInt(g[y][x - 1].current)
            + ToInt(g[y][x + 1].current) + ToInt(g[y + 1][x - 1].current)
            + ToInt(g[y + 1][x].current) + ToInt(g[y + 1][x + 1].current)
        c == (~g[y][x].current /\ n = 3) \/ (g[y][x].current /\ (n = 2 \/ n = 3))
    IN  IF i >= w * h THEN g
        ELSE ScanInPlace([g EXCEPT ![y][x].current = c], i + 1)

UpdateInPlace(g) ==
    LET r == ScanInPlace(g, 0)
    IN  [y \in DOMAIN g |-> [x \in DOMAIN g[y] |->
            [previous |-> g[y][x].current, current |-> r[y][x].current]]]

Update(g) == Evaluate(Snapshot(g))

-----------------------------------------------------------------------------
(* CopyToImage *)

colorLivingCell == "Green"
colorDeadCell == "Black"

\* Image image(w, h, Palette::Black)
NewImage(w, h) == [y \in 0..(h - 1) |-> [x \in 0..(w - 1) |-> colorDeadCell]]

\* CopyToImage reading grid[y][x] in place of grid[y + 1][x + 1]
CopyToImageNoOffset(g, img) ==
    [y \in step(Cardinality(DOMAIN img)) |->
        [x \in step(Cardinality(DOMAIN img[0])) |->
            IF g[y][x].current THEN colorLivingCell ELSE colorDeadCell]]

CopyToImage(g, img) ==
    [y \in step(Cardinality(DOMAIN img)) |->
        [x \in step(Cardinality(DOMAIN img[0])) |->
            IF g[y + 1][x + 1].current THEN colorLivingCell ELSE colorDeadCell]]

-----------------------------------------------------------------------------
(* Cursor, mouse buttons and widgets of one frame *)

Point(x, y) == [x |-> x, y |-> y]

Rect(x, y, w, h) == [x |-> x, y |-> y, w |-> w, h |-> h]

\* rect.mouseOver(): the cursor is inside the rectangle
mouseOver(rect, pos) ==
    /\ rect.x <= pos.x /\ pos.x < rect.x + rect.w
    /\ rect.y <= pos.y /\ pos.y < rect.y + rect.h

\* the field on screen one pixel too large on each axis' far side
CanvasWide == Rect(0, 0, fieldWidth * CellPx + 1, fieldHeight * CellPx + 1)

\* Rect(0, 0, 599): one pixel short of the 60 cells of 10 pixels
Canvas == Rect(0, 0, fieldWidth * CellPx - 1, fieldHeight * CellPx - 1)

\* centres of the widgets, right of the field
posRandom == Point(720, 40)
posClear == Point(720, 80)
posPlay == Point(720, 160)
posSlider == Point(720, 200)
posStep == Point(720, 240)

\* a button that takes any click in the window
ButtonAtAnywhere(center, w, inp) == inp.Ldown

\* SimpleGUI::ButtonAt(label, center, width): clicked in this frame
ButtonAt(center, w, inp) ==
    /\ inp.Ldown
    /\ mouseOver(Rect(center.x - w \div 2, center.y - 18, w, 36), inp.pos)

\* SimpleGUI::SliderAt(label, speed, 1.0, 0.1, center, 80, 120): the value
\* after this frame; inp.slide is the value under the cursor
SliderAt(value, center, labelWidth, sliderWidth, inp) ==
    IF /\ inp.L
       /\ mouseOver(Rect(center.x - (labelWidth + sliderWidth) \div 2, center.y - 18,
                         labelWidth + sliderWidth, 36), inp.pos)
    THEN inp.slide
    ELSE value

\* the timer test with speed in place of speed * speed
UpdateDueLinear(a, sp, reading) == a /\ reading >= sp

\* autoStep && s.sF() >= (speed * speed)
UpdateDue(a, sp, reading) == a /\ reading >= sp * sp

\* the mouse edit whose right-button branch leaves doesUpdate alone
MouseEditNoFlag(g, d, inp) ==
    IF mouseOver(Canvas, inp.pos)
    THEN LET target == Point(inp.pos.x \div CellPx + 1, inp.pos.y \div CellPx + 1)
         IN  IF inp.L
             THEN [grid |-> [g EXCEPT ![target.y][target.x].current = TRUE],
                   doesUpdate |-> TRUE, edit |-> TRUE]
             ELSE IF inp.R
             THEN [grid |-> [g EXCEPT ![target.y][target.x].current = FALSE],
                   doesUpdate |-> d, edit |-> TRUE]
             ELSE [grid |-> g, doesUpdate |-> d, edit |-> FALSE]
    ELSE [grid |-> g, doesUpdate |-> d, edit |-> FALSE]

\* editing the cell under the cursor: left button sets, right button clears
MouseEdit(g, d, inp) ==
    IF mouseOver(Canvas, inp.pos)
    THEN LET target == Point(inp.pos.x \div CellPx + 1, inp.pos.y \div CellPx + 1)
         IN  IF inp.L
             THEN [grid |-> [g EXCEPT ![target.y][target.x].current = TRUE],
                   doesUpdate |-> TRUE, edit |-> TRUE]
             ELSE IF inp.R
             THEN [grid |-> [g EXCEPT ![target.y][target.x].current = FALSE],
                   doesUpdate |-> TRUE, edit |-> TRUE]
             ELSE [grid |-> g, doesUpdate |-> d, edit |-> FALSE]
    ELSE [grid |-> g, doesUpdate |-> d, edit |-> FALSE]

\* current bits of a grid
Currents(g) == [y \in DOMAIN g |-> [x \in DOMAIN g[y] |-> g[y][x].current]]

-----------------------------------------------------------------------------
(* Inputs of one frame *)

Input(pos, Ldown, L, R, dt, rnd, slide) ==
    [pos |-> pos, Ldown |-> Ldown, L |-> L, R |-> R, dt |-> dt,
     rnd |-> rnd, slide |-> slide]

\* outcomes of the RandomBool(0.5) calls of one FillRandom
RandomFills == [Range(1, fieldHeight) -> [Range(1, fieldWidth) -> BOOLEAN]]

NoFill == [y \in Range(1, fieldHeight) |-> [x \in Range(1, fieldWidth) |-> FALSE]]

\* cursor positions the field accepts: the first pixel of every cell and the
\* last pixel of the rectangle
PointsInside ==
    {Point(x * CellPx, y * CellPx) : x \in step(fieldWidth), y \in step(fieldHeight)}
    \cup {Point(fieldWidth * CellPx - 2, fieldHeight * CellPx - 2)}

\* cursor positions next to the field: the last pixel column and row of the
\* last cells, the pixels after them, and the pixels before the first cells
PointsOutside ==
    {Point(fieldWidth * CellPx - 1, 0), Point(0, fieldHeight * CellPx - 1),
     Point(fieldWidth * CellPx, 0), Point(0, fieldHeight * CellPx),
     Point(-1, 0), Point(0, -1)}

\* time that passes between two stopwatch readings, in quarter seconds
Elapsed == {0, 1}

Inputs ==
    \* a mouse button held over the field
    {Input(p, FALSE, b[1], b[2], dt, NoFill, 1) :
        p \in PointsInside,
        b \in {<<TRUE, FALSE>>, <<FALSE, TRUE>>, <<TRUE, TRUE>>},
        dt \in Elapsed}
    \* a mouse button held next to the field
    \cup {Input(p, FALSE, TRUE, FALSE, dt, NoFill, 1) : p \in PointsOutside, dt \in Elapsed}
    \cup {Input(Point(-1, 0), FALSE, FALSE, TRUE, dt, NoFill, 1) : dt \in Elapsed}
    \* a click on a button
    \cup {Input(p, TRUE, TRUE, FALSE, dt, NoFill, 1) :
            p \in {posClear, posPlay, posStep}, dt \in Elapsed}
    \cup {Input(posRandom, TRUE, TRUE, FALSE, dt, r, 1) :
            r \in RandomFills, dt \in Elapsed}
    \* the slider dragged to a value
    \cup {Input(posSlider, FALSE, TRUE, FALSE, dt, NoFill, v) :
            v \in Speeds, dt \in Elapsed}
    \* a button held down since an earlier frame, the right button on a button
    \cup {Input(posStep, FALSE, TRUE, FALSE, dt, NoFill, 1) : dt \in Elapsed}
    \cup {Input(posClear, FALSE, FALSE, TRUE, dt, NoFill, 1) : dt \in Elapsed}
    \* no mouse button
    \cup {Input(posPlay, FALSE, FALSE, FALSE, dt, NoFill, 1) : dt \in Elapsed}

-----------------------------------------------------------------------------
(* Main: the frame loop *)

NoFrame ==
    [fill |-> FALSE, clear |-> FALSE, update |-> FALSE, edit |-> FALSE,
     renders |-> 0, stepBtn |-> FALSE, reading |-> 0, pre |-> <<>>]

Init ==
    /\ grid = NewGrid(fieldWidth + 2, fieldHeight + 2)
    /\ image = NewImage(fieldWidth, fieldHeight)
    /\ autoStep = FALSE
    /\ speed = 1
    /\ doesUpdate = FALSE
    /\ s = 0
    /\ fr = NoFrame
    /\ twin = <<>>

\* the body of while (System::Update()), from the values at the top of the
\* loop to the values at its bottom
Body(inp) ==
    LET random == ButtonAt(posRandom, 200, inp)
        g1 == IF random THEN FillRandom(grid, inp.rnd) ELSE grid
        d1 == IF random THEN TRUE ELSE doesUpdate
        clear == ButtonAt(posClear, 200, inp)
        g2 == IF clear THEN fill(g1, Dead) ELSE g1
        d2 == IF clear THEN TRUE ELSE d1
        a == IF ButtonAt(posPlay, 200, inp) THEN ~autoStep ELSE autoStep
        sp == SliderAt(speed, posSlider, 80, 120, inp)
        reading == s + inp.dt
        stepBtn == ButtonAt(posStep, 200, inp)
        upd == stepBtn \/ UpdateDue(a, sp, reading)
        g3 == IF upd THEN Update(g2) ELSE g2
        d3 == IF upd THEN TRUE ELSE d2
        s3 == IF upd THEN 0 ELSE reading
        e == MouseEdit(g3, d3, inp)
        img == IF e.doesUpdate THEN CopyToImage(e.grid, image) ELSE image
    IN  [grid |-> e.grid, image |-> img, autoStep |-> a, speed |-> sp,
         doesUpdate |-> IF e.doesUpdate THEN FALSE ELSE e.doesUpdate, s |-> s3,
         fr |-> [fill |-> random, clear |-> clear, update |-> upd, edit |-> e.edit,
                 renders |-> IF e.doesUpdate THEN 1 ELSE 0,
                 stepBtn |-> stepBtn, reading |-> reading,
                 pre |-> IF upd THEN Currents(g2) ELSE <<>>]]

\* one iteration of the frame loop
Frame(inp) ==
    /\ s + inp.dt <= MaxElapsed
    /\ \E r \in {Body(inp)} :
        /\ grid' = r.grid
        /\ image' = r.image
        /\ autoStep' = r.autoStep
        /\ speed' = r.speed
        /\ doesUpdate' = r.doesUpdate
        /\ s' = r.s
        /\ fr' = r.fr
    /\ UNCHANGED twin

Next == \E inp \in Inputs : Frame(inp)

Spec == Init /\ [][Next]_vars

\* a frame in which the stopwatch reading grows
Tick == \E inp \in Inputs : inp.dt = 1 /\ Frame(inp)

\* the frame loop keeps running while real time passes
FairSpec == Spec /\ WF_vars(Tick)

-----------------------------------------------------------------------------------------------------------------------------------------------------
(* Update applied, generation after generation, to any grid the loop can hold *)

\* the cells inside the border of a grid of w + 2 by h + 2 cells, as <<y, x>>
Logical(w, h) == Range(1, h) \X Range(1, w)

\* the grid whose cells inside the border have their current bit set when in
\* cur and their previous bit set when in prev, with Cell{ 0,0 } on the border
MakeGrid(w, h, cur, prev) ==
    [y \in 0..(h + 1) |-> [x \in 0..(w + 1) |->
        [previous |-> <<y, x>> \in prev, current |-> <<y, x>> \in cur]]]

\* the block of three by three cells, the neighbourhood Update reads, whose
\* first cell is the logical cell (x, y)
Block(x, y) == Range(y + 1, y + 3) \X Range(x + 1, x + 3)

\* grid: any pattern of live cells within a block placed anywhere inside the
\* border, with the previous bits clear, as FillRandom or the clear button
\* followed by mouse edits leave them; twin: the same current bits over the
\* previous bits of an older generation (the same pattern, its complement, or
\* the full field) that mouse edits have overwritten cell by cell
InitUpdate ==
    /\ \E x \in 0..(RuleW - 3) : \E y \in 0..(RuleH - 3) : \E cur \in SUBSET Block(x, y) :
        /\ grid = MakeGrid(RuleW, RuleH, cur, {})
        /\ \E prev \in {cur, Logical(RuleW, RuleH) \ cur, Logical(RuleW, RuleH)} :
            twin = MakeGrid(RuleW, RuleH, cur, prev)
    /\ image = NewImage(RuleW, RuleH)
    /\ autoStep = FALSE
    /\ speed = 1
    /\ doesUpdate = FALSE
    /\ s = 0
    /\ fr = NoFrame

\* Update(grid), on the grid and on its twin
Generation ==
    /\ grid' = Update(grid)
    /\ twin' = Update(twin)
    /\ fr' = [NoFrame EXCEPT !.update = TRUE, !.pre = Currents(grid)]
    /\ UNCHANGED <<image, autoStep, speed, doesUpdate, s>>

NextUpdate == Generation

SpecUpdate == InitUpdate /\ [][NextUpdate]_vars

-----------------------------------------------------------------------------
(* Properties *)

\* all cells of the grid, and the cells of its border, as <<y, x>>
AllCells == (DOMAIN grid) \X (DOMAIN grid[0])
BorderCells ==
    {c \in AllCells : c[1] \in {0, height(grid) - 1} \/ c[2] \in {0, width(grid) - 1}}
InnerCells == AllCells \ BorderCells

\* the neighbours of cell c that were alive before the last Update
LiveNeighbours(c) ==
    {d \in (({-1, 0, 1} \X {-1, 0, 1}) \ {<<0, 0>>}) : fr.pre[c[1] + d[1]][c[2] + d[2]]}

\* C1: after Update, a cell inside the border is alive exactly when, in the
\* current bits from before that Update, it was dead with exactly three live
\* neighbours or alive with two or three
C1_Rule ==
    fr.update =>
        \A c \in InnerCells :
            grid[c[1]][c[2]].current <=>
                \/ ~fr.pre[c[1]][c[2]] /\ Cardinality(LiveNeighbours(c)) = 3
                \/ fr.pre[c[1]][c[2]] /\ Cardinality(LiveNeighbours(c)) \in {2, 3}

\* an Update gave birth to a cell, kept one alive, and let one die of
\* overpopulation and one of underpopulation
C1_Witness ==
    /\ fr.update
    /\ \E c \in InnerCells : ~fr.pre[c[1]][c[2]] /\ grid[c[1]][c[2]].current
    /\ \E c \in InnerCells : fr.pre[c[1]][c[2]] /\ grid[c[1]][c[2]].current
    /\ \E c \in InnerCells :
        fr.pre[c[1]][c[2]] /\ ~grid[c[1]][c[2]].current
        /\ Cardinality(LiveNeighbours(c)) >= 4
    /\ \E c \in InnerCells :
        fr.pre[c[1]][c[2]] /\ ~grid[c[1]][c[2]].current
        /\ Cardinality(LiveNeighbours(c)) <= 1

\* C2: every cell of the border has both bits clear
C2_Padding ==
    \A c \in BorderCells : ~grid[c[1]][c[2]].current /\ ~grid[c[1]][c[2]].previous

\* a frame ran Update and then set, with the mouse, the last cell of the last row
C2_Witness ==
    /\ fr.update /\ fr.edit
    /\ grid[fieldHeight][fieldWidth].current

\* live cells of a matrix of bits, as <<y, x>> in grid coordinates
Live(m) == {c \in AllCells : m[c[1]][c[2]]}

\* the row (x,y), (x+1,y), (x+2,y) and the column (x+1,y-1), (x+1,y),
\* (x+1,y+1) of logical coordinates, in grid coordinates
Row(x, y) == {<<y + 1, x + 1>>, <<y + 1, x + 2>>, <<y + 1, x + 3>>}
Col(x, y) == {<<y, x + 2>>, <<y + 1, x + 2>>, <<y + 2, x + 2>>}

Blinks(x, y) ==
    /\ (fr.update /\ Live(fr.pre) = Row(x, y)) => Live(Currents(grid)) = Col(x, y)
    /\ (fr.update /\ Live(fr.pre) = Col(x, y)) => Live(Currents(grid)) = Row(x, y)

\* C3, as stated: wherever the row of three lies inside the border, Update
\* turns it into the column of three, and the column back into the row
C3_BlinkerAnywhere ==
    \A x \in 0..(RuleW - 3) : \A y \in 0..(RuleH - 1) : Blinks(x, y)

\* C3, amended: the same, for the rows whose column lies inside the border too
C3_BlinkerInside ==
    \A x \in 0..(RuleW - 3) : \A y \in 1..(RuleH - 2) : Blinks(x, y)

\* Update has turned a row of three into its column
C3_Witness ==
    \E x \in 0..(RuleW - 3) : \E y \in 1..(RuleH - 2) :
        fr.update /\ Live(fr.pre) = Row(x, y) /\ Live(Currents(grid)) = Col(x, y)

\* C4: two grids with the same current bits and different previous bits are
\* the same grid after Update
C4_Deterministic == fr.update => grid = twin

\* Update has run on a grid with live cells and left live cells
C4_Witness ==
    /\ fr.update /\ grid = twin
    /\ \E c \in InnerCells : grid[c[1]][c[2]].previous
    /\ \E c \in InnerCells : grid[c[1]][c[2]].current

\* number of operations of the last frame that wrote the grid
Mutations == ToInt(fr.fill) + ToInt(fr.clear) + ToInt(fr.update) + ToInt(fr.edit)

\* C5, as stated: a frame applies at most one of FillRandom, clear, Update and
\* the mouse edit to the grid, and runs CopyToImage at most once
C5_OneMutation == Mutations <= 1 /\ fr.renders <= 1

\* C5, amended: a frame applies at most one of FillRandom, clear and the mouse
\* edit, and at most one Update; it applies two operations only when the
\* Update is the one the timer starts; CopyToImage runs at most once
C5_OnePlusTimer ==
    /\ ToInt(fr.fill) + ToInt(fr.clear) + ToInt(fr.edit) <= 1
    /\ Mutations = 2 => (fr.update /\ ~fr.stepBtn /\ autoStep)
    /\ fr.renders <= 1

\* a frame cleared the grid and the timer ran Update on it
C5_Witness == fr.clear /\ fr.update /\ Mutations = 2 /\ fr.renders = 1

C7_Clear ==
    (fr.clear /\ ~fr.edit) =>
        \A c \in AllCells : grid[c[1]][c[2]] = [previous |-> FALSE, current |-> FALSE]

\* clear and then Update in one frame
C7_Witness == fr.clear /\ fr.update /\ ~fr.edit

\* C8: after a frame that ran Update, every cell's previous bit, border
\* included, is the current bit the cell had when Update started
C8_Snapshot ==
    fr.update => \A c \in AllCells : grid[c[1]][c[2]].previous = fr.pre[c[1]][c[2]]

\* Update has run on a grid with a live cell and changed a current bit
C8_Witness ==
    /\ fr.update
    /\ \E c \in InnerCells : fr.pre[c[1]][c[2]]
    /\ \E c \in InnerCells : grid[c[1]][c[2]].previous # grid[c[1]][c[2]].current

\* C9: a frame runs Update exactly when the step button was pressed in it or
\* auto-play is on and the stopwatch reads at least speed * speed; Update
\* restarts the stopwatch; and with auto-play on no frame ends with the
\* stopwatch at speed * speed or more, so that as time passes the frame that
\* runs Update comes
C9_Trigger ==
    /\ fr.update <=> (fr.stepBtn \/ (autoStep /\ fr.reading >= speed * speed))
    /\ fr.update => s = 0
    /\ ~fr.update => s = fr.reading
    /\ autoStep => s < speed * speed

\* the same as a liveness property of the running loop: from a frame with
\* auto-play on that ran no Update, a frame that runs Update comes unless
\* auto-play is switched off
EventuallyStep == (autoStep /\ ~fr.update) ~> (fr.update \/ ~autoStep)

\* the timer has run Update at the slow speed, one second after the last one
C9_Witness ==
    /\ fr.update /\ ~fr.stepBtn
    /\ autoStep /\ speed = 2 /\ fr.reading = 4 /\ s = 0

\* C10: at the end of every frame the image shows the grid and doesUpdate is
\* false
C10_Display ==
    /\ doesUpdate = FALSE
    /\ \A y \in 0..(fieldHeight - 1) : \A x \in 0..(fieldWidth - 1) :
        (image[y][x] = "Green") <=> grid[y + 1][x + 1].current
    /\ \A y \in 0..(fieldHeight - 1) : \A x \in 0..(fieldWidth - 1) :
        image[y][x] \in {"Green", "Black"}

\* the left mouse button has set a cell and the image shows it alive
C10_Witness ==
    /\ fr.edit /\ fr.renders = 1 /\ ~fr.update /\ ~fr.fill /\ ~fr.clear
    /\ grid[fieldHeight][fieldWidth].current
    /\ image[fieldHeight - 1][fieldWidth - 1] = "Green"

====
